---- MODULE Spec2Model ----
(***************************************************************************)
(* LookupTableIDAViaGraph: the IDA* driver (solve), the recursive search   *)
(* (ida_search), the heuristic combiner (ida_heuristic), the MoveSet built *)
(* by __init__, and the recolor/rollback handling of the puzzle.           *)
(*                                                                         *)
(* The recursion of ida_search is modelled with an explicit call stack:    *)
(* one action per call entry, per loop step and per return.                *)
(*                                                                         *)
(* Python indices are zero based; sequences here are one based, so a       *)
(* Python position p is element p+1.  Node indices keep their zero-based   *)
(* values.  The instances modelled have avoid_oll = None, the value        *)
(* LookupTable.__init__ leaves; this class never assigns it.               *)
(*                                                                         *)
(* Spec starts from a constructed instance and follows one call of         *)
(* solve(); ConstructSpec follows __init__ alone, over every argument list.*)
(***************************************************************************)
EXTENDS Integers, Sequences, FiniteSets, TLC

(***************************************************************************)
(* Bounds of the model                                                     *)
(***************************************************************************)
\* number of nodes of every prune table graph (nodes 0 .. NumNodes-1)
NumNodes == 4
\* largest threshold argument passed to solve()
MaxThreshold == 5
\* longest moves_illegal and legal_moves argument of __init__
MaxArgLen == 2

(***************************************************************************)
(* Program constants                                                       *)
(***************************************************************************)
COST_LENGTH == 1
STATE_INDEX_LENGTH == 4
\* default of explored.get(lt_state, 99)
UnexploredCost == 99

None == "None"
\* Python None where a list of moves is expected
NoSteps == <<None>>
\* Python None where a threshold is expected (min_ida_threshold=None)
NoThreshold == 0 - 1

Nodes == 0 .. (NumNodes - 1)

(***************************************************************************)
(* Sequence helpers                                                        *)
(***************************************************************************)
Range(s) == {s[i] : i \in DOMAIN s}

\* p ** k for the byte arithmetic of struct.unpack
RECURSIVE Pow(_, _)
Pow(p, k) == IF k = 0 THEN 1 ELSE p * Pow(p, k - 1)

(***************************************************************************)
(* MoveSet (__init__)                                                      *)
(***************************************************************************)
\* the candidate superset handed to the constructor as moves_all
CandidateMoves == <<"A", "A2", "B">>

\* face and layer a move symbol acts on
FaceLayer == ("A" :> "A") @@ ("A2" :> "A") @@ ("B" :> "B")

\* LookupTable.steps_on_same_face_and_layer(step1, step2)
steps_on_same_face_and_layer(step1, step2) ==
    /\ step1 # None
    /\ FaceLayer[step1] = FaceLayer[step2]

\* __init__: some illegal move is not in the candidate superset
ConfigError(cand, illegal) ==
    \E i \in DOMAIN illegal : illegal[i] \notin Range(cand)

\* __init__: self.moves_all
RECURSIVE RemoveIllegal(_, _)
RemoveIllegal(cand, illegal) ==
    IF cand = <<>> THEN <<>>
    ELSE IF Head(cand) \in Range(illegal)
         THEN RemoveIllegal(Tail(cand), illegal)
         ELSE <<Head(cand)>> \o RemoveIllegal(Tail(cand), illegal)

\* the explicit legal-move list left unused
MovesAllIgnoringLegal(cand, illegal, legal) == RemoveIllegal(cand, illegal)

MovesAll(cand, illegal, legal) ==
    IF legal # <<>> THEN legal ELSE RemoveIllegal(cand, illegal)

\* __init__: self.step_index[step], zero based; the last position wins when
\* a symbol is listed twice
StepIndex(moves, step) ==
    (CHOOSE i \in DOMAIN moves :
        /\ moves[i] = step
        /\ \A j \in DOMAIN moves : moves[j] = step => j <= i) - 1

\* __init__: self.ROW_LENGTH
ROW_LENGTH(moves) == COST_LENGTH + (STATE_INDEX_LENGTH * Len(moves))

\* __init__: the keys of self.steps_not_on_same_face_and_layer
NotSameFaceKeys(moves) ==
    {step1 \in Range(moves) \cup {None} :
        \E i \in DOMAIN moves : ~steps_on_same_face_and_layer(step1, moves[i])}

\* the candidate list with no redundancy filter
AllSteps(moves, step1) == moves

\* __init__: self.steps_not_on_same_face_and_layer[step1]
RECURSIVE FilterSteps(_, _)
FilterSteps(moves, step1) ==
    IF moves = <<>> THEN <<>>
    ELSE IF steps_on_same_face_and_layer(step1, Head(moves))
         THEN FilterSteps(Tail(moves), step1)
         ELSE <<Head(moves)>> \o FilterSteps(Tail(moves), step1)

steps_not_on_same_face_and_layer(moves, step1) == FilterSteps(moves, step1)

(***************************************************************************)
(* PruneTableGraph: the binary graph of one prune table                    *)
(***************************************************************************)
\* A prune table pt is a record
\*   cost        : cost byte of node n at cost[n+1]
\*   succ        : successor of node n by the move of index i at succ[n+1][i+1]
\*   state_index : what pt.state_index() returns for the puzzle at search start

\* pt.ida_graph[offset]: the byte of the file at a zero-based offset; row n
\* starts at n * ROW_LENGTH, holds the cost byte and then, per move, the
\* successor as a 4-byte big-endian unsigned integer
ida_graph(pt, moves, offset) ==
    LET row == offset \div ROW_LENGTH(moves)
        col == offset % ROW_LENGTH(moves)
    IN  IF col < COST_LENGTH
        THEN pt.cost[row + 1] % 256
        ELSE LET i == (col - COST_LENGTH) \div STATE_INDEX_LENGTH
                 k == (col - COST_LENGTH) % STATE_INDEX_LENGTH
             IN  (pt.succ[row + 1][i + 1]
                     \div Pow(256, STATE_INDEX_LENGTH - 1 - k)) % 256

\* struct.unpack(">L", pt.ida_graph[start:end])[0] with end = start + 4
unpack(pt, moves, start) ==
      ida_graph(pt, moves, start) * Pow(256, 3)
    + ida_graph(pt, moves, start + 1) * Pow(256, 2)
    + ida_graph(pt, moves, start + 2) * 256
    + ida_graph(pt, moves, start + 3)

\* ida_search: the node a table reaches from `node` by `step`
NextNode(pt, moves, node, step) ==
    unpack(pt, moves,
           (node * ROW_LENGTH(moves)) + 1 + (StepIndex(moves, step) * 4))

\* ida_heuristic / ida_search: the cost byte of a table at `node`
PtCostToGoal(pt, moves, node) == ida_graph(pt, moves, node * ROW_LENGTH(moves))

\* the cost bytes added up in place of the largest one
RECURSIVE SumCostToGoal(_, _, _)
SumCostToGoal(pts, moves, nodes) ==
    IF pts = <<>> THEN 0
    ELSE SumCostToGoal(SubSeq(pts, 1, Len(pts) - 1), moves,
                       SubSeq(nodes, 1, Len(pts) - 1))
         + PtCostToGoal(pts[Len(pts)], moves, nodes[Len(pts)])

\* ida_search, lines 119-130 (the inlined copy of ida_heuristic): the
\* largest cost byte over the tables, starting from 0
RECURSIVE CostToGoal(_, _, _)
CostToGoal(pts, moves, nodes) ==
    IF pts = <<>> THEN 0
    ELSE LET rest == CostToGoal(SubSeq(pts, 1, Len(pts) - 1), moves,
                                SubSeq(nodes, 1, Len(pts) - 1))
             pt_cost_to_goal == PtCostToGoal(pts[Len(pts)], moves, nodes[Len(pts)])
         IN  IF pt_cost_to_goal > rest THEN pt_cost_to_goal ELSE rest

\* ida_heuristic (lines 97-109): the loop over the tables from table i on,
\* with lt_state and cost_to_goal as accumulated so far; `nodes` holds
\* pt.ida_graph_node of every table and is only read
RECURSIVE ida_heuristic_from(_, _, _, _, _, _)
ida_heuristic_from(pts, moves, nodes, i, lt_state, cost_to_goal) ==
    IF i > Len(pts)
    THEN [lt_state |-> lt_state, cost_to_goal |-> cost_to_goal]
    ELSE LET offset == nodes[i] * ROW_LENGTH(moves)
             pt_cost_to_goal == ida_graph(pts[i], moves, offset)
         IN  ida_heuristic_from(pts, moves, nodes, i + 1,
                                Append(lt_state, nodes[i]),
                                IF pt_cost_to_goal > cost_to_goal
                                THEN pt_cost_to_goal
                                ELSE cost_to_goal)

ida_heuristic(pts, moves, nodes) ==
    ida_heuristic_from(pts, moves, nodes, 1, <<>>, 0)

\* ida_search: every table advanced by `step` from the nodes `from`
Advance(pts, moves, from, step) ==
    [t \in DOMAIN pts |-> NextNode(pts[t], moves, from[t], step)]

(***************************************************************************)
(* The puzzle collaborator (parent) and the recolor transform              *)
(***************************************************************************)
\* the puzzle at the call of solve(): a three-position state buffer (a
\* corner, an edge and a center position) and a solution log
InitialState == <<"U", "L", "F">>
InitialSolution == <<"B">>

\* parent.rotate(step) on the state buffer: position i takes what was at
\* RotatePerm[step][i]
RotatePerm ==
    ("A" :> <<2, 3, 1>>) @@ ("A2" :> <<3, 1, 2>>) @@ ("B" :> <<2, 1, 3>>)

RotateState(state, step) == [i \in DOMAIN state |-> state[RotatePerm[step][i]]]

\* parent.nuke_corners() / nuke_edges() / nuke_centers()
NukeAt(state, pos) == [state EXCEPT ![pos] = "."]

\* the recolor configurations of an instance: the three nuke flags,
\* recolor_positions (zero based) and recolor_map
RecolorOff ==
    [nuke_corners |-> FALSE, nuke_edges |-> FALSE, nuke_centers |-> FALSE,
     recolor_positions |-> <<>>, recolor_map |-> <<>>]
RecolorNuke == [RecolorOff EXCEPT !.nuke_corners = TRUE]
RecolorMap ==
    [RecolorOff EXCEPT !.recolor_positions = <<1, 2>>,
                       !.recolor_map = ("L" :> "x")]

\* recolor(): the loop over recolor_positions
RECURSIVE RecolorPositions(_, _, _)
RecolorPositions(state, positions, map) ==
    IF positions = <<>> THEN state
    ELSE LET x == Head(positions)
             x_color == state[x + 1]
             recolored == IF x_color \in DOMAIN map
                          THEN [state EXCEPT ![x + 1] = map[x_color]]
                          ELSE state
         IN  RecolorPositions(recolored, Tail(positions), map)

\* recolor()
recolor(state, rc) ==
    IF rc.nuke_corners \/ rc.nuke_edges \/ rc.nuke_centers
       \/ rc.recolor_positions # <<>>
    THEN LET s1 == IF rc.nuke_corners THEN NukeAt(state, 1) ELSE state
             s2 == IF rc.nuke_edges THEN NukeAt(s1, 2) ELSE s1
             s3 == IF rc.nuke_centers THEN NukeAt(s2, 3) ELSE s2
         IN  RecolorPositions(s3, rc.recolor_positions, rc.recolor_map)
    ELSE state

\* solve(): for step in best_solution: self.parent.rotate(step); rotate
\* turns the state buffer and appends the step to the solution log
RECURSIVE Replay(_, _)
Replay(puzzle, steps) ==
    IF steps = <<>> THEN puzzle
    ELSE Replay([state |-> RotateState(puzzle.state, Head(steps)),
                 solution |-> Append(puzzle.solution, Head(steps))],
                Tail(steps))

(***************************************************************************)
(* The explored memo and the solution record (Python dicts)                *)
(***************************************************************************)
\* self.explored.get(lt_state, 99)
ExploredGet(explored, lt_state) ==
    IF lt_state \in DOMAIN explored THEN explored[lt_state] ELSE UnexploredCost

\* an entry that is present is left as it is
ExploredSetIfAbsent(explored, lt_state, cost_to_here) ==
    IF lt_state \in DOMAIN explored THEN explored
    ELSE (lt_state :> cost_to_here) @@ explored

\* self.explored[lt_state] = cost_to_here
ExploredSet(explored, lt_state, cost_to_here) ==
    (lt_state :> cost_to_here) @@ explored

\* self.ida_nodes[lt_state] = steps_to_here; a dict keeps insertion order
\* and an existing key keeps its place
IdaNodesSet(ida_nodes, lt_state, steps_to_here) ==
    IF \E i \in DOMAIN ida_nodes : ida_nodes[i].state = lt_state
    THEN [i \in DOMAIN ida_nodes |->
            IF ida_nodes[i].state = lt_state
            THEN [state |-> lt_state, steps |-> steps_to_here]
            ELSE ida_nodes[i]]
    ELSE Append(ida_nodes, [state |-> lt_state, steps |-> steps_to_here])

\* get_best_ida_solution(): the first entry of the smallest length, None
\* for an empty record
get_best_ida_solution(ida_nodes) ==
    IF ida_nodes = <<>> THEN NoSteps
    ELSE LET i == CHOOSE i \in DOMAIN ida_nodes :
                    /\ \A j \in DOMAIN ida_nodes :
                          Len(ida_nodes[j].steps) >= Len(ida_nodes[i].steps)
                    /\ \A j \in 1 .. (i - 1) :
                          Len(ida_nodes[j].steps) > Len(ida_nodes[i].steps)
         IN  ida_nodes[i].steps

\* solve(): "if best_solution:" is false for None and for the empty list
Truthy(best_solution) == best_solution # NoSteps /\ best_solution # <<>>

\* the range test with the bound off by one
RangeErrorLate(min_ida_threshold, max_ida_threshold) ==
    min_ida_threshold > max_ida_threshold + 1

\* solve(): if min_ida_threshold >= max_ida_threshold + 1: raise
RangeError(min_ida_threshold, max_ida_threshold) ==
    min_ida_threshold >= max_ida_threshold + 1

(***************************************************************************)
(* The instances: movesets, prune tables, thresholds                       *)
(***************************************************************************)
\* the moves_illegal arguments of the instances: none, one that leaves two
\* faces, one that leaves a single face and layer
IllegalChoices == {<<>>, <<"A2">>, <<"B">>}

\* how far a move advances a node of a cyclic table with steps a (face A)
\* and b (face B): A2 is A done twice
Increment(a, b) == ("A" :> a) @@ ("A2" :> 2 * a) @@ ("B" :> b)

\* the successor rows of a cyclic table over the moves of the instance
CyclicSucc(moves, a, b) ==
    [n1 \in 1 .. NumNodes |->
        [i \in DOMAIN moves |-> ((n1 - 1) + Increment(a, b)[moves[i]]) % NumNodes]]

\* the nodes of a table from which node 0 is reached in at most k moves
RECURSIVE Within(_, _)
Within(succ, k) ==
    IF k = 0 THEN {0}
    ELSE LET near == Within(succ, k - 1)
         IN  near \cup {n \in Nodes :
                          \E i \in DOMAIN succ[n + 1] : succ[n + 1][i] \in near}

\* the length of a shortest path from node n to node 0; NumNodes when there
\* is none
Distance(succ, n) ==
    IF n \in Within(succ, NumNodes - 1)
    THEN CHOOSE k \in 0 .. (NumNodes - 1) :
            /\ n \in Within(succ, k)
            /\ \A j \in 0 .. (k - 1) : n \notin Within(succ, j)
    ELSE NumNodes

\* the cost bytes of a table: the exact distances to node 0, or the weakest
\* admissible costs (0 at node 0 and 1 elsewhere)
ExactCost(succ) == [n1 \in 1 .. NumNodes |-> Distance(succ, n1 - 1)]
WeakCost(succ) == [n1 \in 1 .. NumNodes |-> IF n1 = 1 THEN 0 ELSE 1]

CyclicTable(moves, a, b, exact, root) ==
    LET succ == CyclicSucc(moves, a, b)
    IN  [cost |-> IF exact THEN ExactCost(succ) ELSE WeakCost(succ),
         succ |-> succ,
         state_index |-> root]

\* instances with one prune table
OneTable(moves) ==
    {<<CyclicTable(moves, a, b, exact, root)>> :
        a \in 1 .. (NumNodes - 1), b \in Nodes,
        exact \in BOOLEAN, root \in Nodes}

\* instances with two prune tables of exact costs: face A turns only the
\* first table and face B only the second
TwoTables(moves) ==
    {<<CyclicTable(moves, a, 0, TRUE, r1), CyclicTable(moves, 0, b, TRUE, r2)>> :
        a \in {1, 2}, b \in {1, 2}, r1 \in Nodes, r2 \in Nodes}

\* instances with one prune table that is no group graph: a cyclic table
\* with the successor of one node by one move redirected
RedirectedTable(moves, exact, root, n, i, target) ==
    LET succ == [CyclicSucc(moves, 1, 0) EXCEPT ![n + 1][i] = target]
    IN  [cost |-> IF exact THEN ExactCost(succ) ELSE WeakCost(succ),
         succ |-> succ,
         state_index |-> root]

Redirected(moves) ==
    {<<RedirectedTable(moves, exact, root, n, i, target)>> :
        exact \in BOOLEAN, root \in Nodes,
        n \in Nodes, i \in DOMAIN moves, target \in Nodes}

ThresholdArgs == (0 .. MaxThreshold) \cup {NoThreshold}

\* the lists of at most n elements of S
ListsUpTo(S, n) == UNION {[1 .. k -> S] : k \in 0 .. n}

\* a move symbol outside the candidate superset
ForeignMove == "C"

\* the arguments __init__ is tried with: a candidate superset (moves_all),
\* moves_illegal and legal_moves
CandidateArgs == ListsUpTo(Range(CandidateMoves), MaxArgLen + 1)
IllegalArgs == ListsUpTo(Range(CandidateMoves) \cup {ForeignMove}, MaxArgLen)
LegalArgs == ListsUpTo(Range(CandidateMoves) \cup {ForeignMove}, MaxArgLen)

(***************************************************************************)
(* State                                                                   *)
(***************************************************************************)
VARIABLES
    init_args,            \* moves_all, moves_illegal, legal_moves of __init__
    moves_all,            \* self.moves_all
    prune_tables,         \* self.prune_tables
    recolor_cfg,          \* the nuke flags, recolor_positions, recolor_map
    call,                 \* the arguments of solve() and the puzzle at the call
    parent_state,         \* self.parent.state
    parent_solution,      \* self.parent.solution
    pre_recolor,          \* self.pre_recolor_state, self.pre_recolor_solution
    original,             \* self.original_state, self.original_solution
    ida_graph_node,       \* pt.ida_graph_node of every prune table
    min_ida_threshold,    \* solve(): min_ida_threshold once defaulted
    threshold,            \* solve(): the loop variable
    explored,             \* self.explored
    ida_nodes,            \* self.ida_nodes
    ida_count,            \* self.ida_count
    total_ida_count,      \* solve(): total_ida_count
    stack,                \* the frames of ida_search, the innermost last
    ret,                  \* the value the last ida_search call returned
    best_solution,        \* solve(): best_solution
    lookups,              \* successor lookups made so far (line 190)
    pc,                   \* where solve() is
    outcome               \* how solve() ended

config == <<init_args, moves_all, prune_tables, recolor_cfg, call>>
puzzle == <<parent_state, parent_solution, pre_recolor, original>>
search == <<ida_graph_node, explored, ida_nodes, ida_count, stack, ret, lookups>>
driver == <<min_ida_threshold, threshold, total_ida_count, best_solution, pc, outcome>>
vars == <<config, puzzle, search, driver>>

\* a frame of ida_search: its arguments (threshold is the same in every
\* frame of an iteration) and its locals f_cost, the position in next_steps
\* and skip_other_steps_this_face, which are assigned once the frame expands;
\* `tried` is the step of the frame's most recent recursive call (line 194),
\* None before the first
Frame(cost_to_here, steps_to_here, prev_step, prev_ida_graph_nodes) ==
    [cost_to_here |-> cost_to_here,
     steps_to_here |-> steps_to_here,
     prev_step |-> prev_step,
     prev_ida_graph_nodes |-> prev_ida_graph_nodes,
     f_cost |-> 0,
     idx |-> 0,
     skip_other_steps_this_face |-> None,
     tried |-> None,
     at |-> "entry"]

Top == stack[Len(stack)]
Pop == SubSeq(stack, 1, Len(stack) - 1)

(***************************************************************************)
(* Init: the instance after construction, solve() not yet called           *)
(***************************************************************************)
Init ==
    /\ \E illegal \in IllegalChoices :
          /\ ~ConfigError(CandidateMoves, illegal)
          /\ init_args = [moves_all |-> CandidateMoves,
                          moves_illegal |-> illegal,
                          legal_moves |-> <<>>]
          /\ moves_all = MovesAll(CandidateMoves, illegal, <<>>)
    /\ \/ /\ prune_tables \in OneTable(moves_all) \cup TwoTables(moves_all)
          /\ recolor_cfg \in {RecolorOff, RecolorNuke, RecolorMap}
       \/ /\ prune_tables \in Redirected(moves_all)
          /\ recolor_cfg = RecolorOff
    /\ \E min \in ThresholdArgs, max \in 0 .. MaxThreshold :
          call = [min_ida_threshold |-> min, max_ida_threshold |-> max,
                  state |-> InitialState, solution |-> InitialSolution]
    /\ parent_state = InitialState
    /\ parent_solution = InitialSolution
    /\ pre_recolor = [state |-> <<>>, solution |-> <<>>]
    /\ original = [state |-> <<>>, solution |-> <<>>]
    /\ ida_graph_node = <<>>
    /\ min_ida_threshold = call.min_ida_threshold
    /\ threshold = 0
    /\ explored = <<>>
    /\ ida_nodes = <<>>
    /\ ida_count = 0
    /\ total_ida_count = 0
    /\ stack = <<>>
    /\ ret = [f_cost |-> 0, found_solution |-> FALSE]
    /\ best_solution = NoSteps
    /\ lookups = 0
    /\ pc = "call"
    /\ outcome = "none"

(***************************************************************************)
(* solve(), up to the threshold loop (lines 272-339)                       *)
(***************************************************************************)
Solve ==
    /\ pc = "call"
    /\ pre_recolor' = [state |-> parent_state, solution |-> parent_solution]
    /\ parent_state' = recolor(parent_state, recolor_cfg)
    /\ original' = [state |-> parent_state', solution |-> parent_solution]
    \* init_ida_graph_nodes()
    /\ ida_graph_node' = [t \in DOMAIN prune_tables |-> prune_tables[t].state_index]
    \* (lt_state, cost_to_goal) = self.ida_heuristic()
    /\ LET cost_to_goal ==
              ida_heuristic(prune_tables, moves_all, ida_graph_node').cost_to_goal
       IN  min_ida_threshold' = IF min_ida_threshold = NoThreshold
                                THEN cost_to_goal
                                ELSE min_ida_threshold
    /\ IF RangeError(min_ida_threshold', call.max_ida_threshold)
       THEN /\ pc' = "done"
            /\ outcome' = "range_error"
            /\ threshold' = threshold
       ELSE /\ pc' = "loop"
            /\ outcome' = outcome
            /\ threshold' = min_ida_threshold'
    /\ total_ida_count' = 0
    /\ UNCHANGED <<config, parent_solution, explored, ida_nodes, ida_count,
                   stack, ret, lookups, best_solution>>

(***************************************************************************)
(* solve(): the head of one threshold iteration (lines 341-349)            *)
(***************************************************************************)
IterStart ==
    /\ pc = "loop"
    /\ threshold <= call.max_ida_threshold
    /\ ida_count' = 0
    /\ explored' = <<>>
    /\ ida_nodes' = <<>>
    \* ida_graph_nodes = self.get_ida_graph_nodes()
    /\ stack' = <<Frame(0, <<>>, None, ida_graph_node)>>
    /\ pc' = "search"
    /\ UNCHANGED <<config, puzzle, ida_graph_node, ret, lookups,
                   min_ida_threshold, threshold, total_ida_count,
                   best_solution, outcome>>

(***************************************************************************)
(* ida_search (lines 111-210)                                              *)
(***************************************************************************)
\* lines 119-133 at the entry of the innermost frame
LtState == ida_graph_node
EntryCostToGoal == CostToGoal(prune_tables, moves_all, ida_graph_node)
EntryFCost == Top.cost_to_here + EntryCostToGoal

AtEntry == pc = "search" /\ Top.at = "entry"
AtLoop == pc = "search" /\ Top.at = "loop"
AtWait == pc = "search" /\ Top.at = "wait"

\* line 141: if f_cost >= threshold, with > in place of >=
CutoffStrict(f_cost, thr) == f_cost > thr

\* line 141: if f_cost >= threshold
Cutoff(f_cost, thr) == f_cost >= thr

\* return (f_cost, found_solution) from the innermost frame
Return(f_cost, found_solution) ==
    /\ stack' = Pop
    /\ ret' = [f_cost |-> f_cost, found_solution |-> found_solution]
    /\ pc' = IF Len(stack) = 1 THEN "iter_end" ELSE pc

\* lines 141-142: if f_cost >= threshold: return (f_cost, False)
SearchCutoff ==
    /\ AtEntry
    /\ ida_count' = ida_count + 1
    /\ Cutoff(EntryFCost, threshold)
    /\ Return(EntryFCost, FALSE)
    /\ UNCHANGED <<config, puzzle, ida_graph_node, explored, ida_nodes, lookups,
                   min_ida_threshold, threshold, total_ida_count,
                   best_solution, outcome>>

\* lines 145-147: the goal is reached
SearchGoal ==
    /\ AtEntry
    /\ ida_count' = ida_count + 1
    /\ ~Cutoff(EntryFCost, threshold)
    /\ EntryCostToGoal = 0
    /\ ida_nodes' = IdaNodesSet(ida_nodes, LtState, Top.steps_to_here)
    /\ Return(EntryFCost, TRUE)
    /\ UNCHANGED <<config, puzzle, ida_graph_node, explored, lookups,
                   min_ida_threshold, threshold, total_ida_count,
                   best_solution, outcome>>

\* lines 151-153: the node was explored at no greater cost
SearchExplored ==
    /\ AtEntry
    /\ ida_count' = ida_count + 1
    /\ ~Cutoff(EntryFCost, threshold)
    /\ EntryCostToGoal # 0
    /\ ExploredGet(explored, LtState) <= Top.cost_to_here
    /\ Return(EntryFCost, FALSE)
    /\ UNCHANGED <<config, puzzle, ida_graph_node, explored, ida_nodes, lookups,
                   min_ida_threshold, threshold, total_ida_count,
                   best_solution, outcome>>

\* lines 154-158: the node is recorded as explored and its candidate moves
\* are looked up
SearchExpand ==
    /\ AtEntry
    /\ ida_count' = ida_count + 1
    /\ ~Cutoff(EntryFCost, threshold)
    /\ EntryCostToGoal # 0
    /\ ~(ExploredGet(explored, LtState) <= Top.cost_to_here)
    /\ explored' = ExploredSet(explored, LtState, Top.cost_to_here)
    /\ Top.prev_step \in NotSameFaceKeys(moves_all)
    /\ stack' = [stack EXCEPT ![Len(stack)] =
                    [@ EXCEPT !.f_cost = EntryFCost, !.idx = 1,
                              !.skip_other_steps_this_face = None,
                              !.at = "loop"]]
    /\ UNCHANGED <<config, puzzle, ida_graph_node, ida_nodes, ret, lookups,
                   driver>>

\* line 158 raises KeyError: prev_step has no entry in
\* steps_not_on_same_face_and_layer; the exception leaves solve()
SearchKeyError ==
    /\ AtEntry
    /\ ida_count' = ida_count + 1
    /\ ~Cutoff(EntryFCost, threshold)
    /\ EntryCostToGoal # 0
    /\ ~(ExploredGet(explored, LtState) <= Top.cost_to_here)
    /\ explored' = ExploredSet(explored, LtState, Top.cost_to_here)
    /\ Top.prev_step \notin NotSameFaceKeys(moves_all)
    /\ pc' = "done"
    /\ outcome' = "KeyError"
    /\ UNCHANGED <<config, puzzle, ida_graph_node, ida_nodes, stack, ret,
                   lookups, min_ida_threshold, threshold, total_ida_count,
                   best_solution>>

NextSteps == steps_not_on_same_face_and_layer(moves_all, Top.prev_step)
Step == NextSteps[Top.idx]
\* lines 173-174: the skip marker is set and the step is on its face
Skipped ==
    /\ Top.skip_other_steps_this_face # None
    /\ steps_on_same_face_and_layer(Top.skip_other_steps_this_face, Step)

\* lines 173-175: continue
SearchSkip ==
    /\ AtLoop
    /\ Top.idx <= Len(NextSteps)
    /\ Skipped
    /\ stack' = [stack EXCEPT ![Len(stack)].idx = @ + 1]
    /\ UNCHANGED <<config, puzzle, ida_graph_node, explored, ida_nodes,
                   ida_count, ret, lookups, driver>>

\* lines 176-200 without lines 181-182: the tables are advanced from the
\* nodes the previous child left in them
SearchDescendNoReset ==
    /\ AtLoop
    /\ Top.idx <= Len(NextSteps)
    /\ ~Skipped
    /\ LET curr_ida_graph_nodes ==
              Advance(prune_tables, moves_all, ida_graph_node, Step)
       IN  /\ ida_graph_node' = curr_ida_graph_nodes
           /\ stack' = Append(
                  [stack EXCEPT ![Len(stack)] =
                      [@ EXCEPT !.skip_other_steps_this_face = None,
                                !.tried = Step,
                                !.at = "wait"]],
                  Frame(Top.cost_to_here + 1, Append(Top.steps_to_here, Step),
                        Step, curr_ida_graph_nodes))
    /\ lookups' = lookups + Len(prune_tables)
    /\ UNCHANGED <<config, puzzle, explored, ida_nodes, ida_count, ret, driver>>

\* lines 176-200: the tables are set to the frame's nodes, advanced by the
\* step, and ida_search is called for the child
SearchDescend ==
    /\ AtLoop
    /\ Top.idx <= Len(NextSteps)
    /\ ~Skipped
    /\ LET curr_ida_graph_nodes ==
              Advance(prune_tables, moves_all, Top.prev_ida_graph_nodes, Step)
       IN  /\ ida_graph_node' = curr_ida_graph_nodes
           /\ stack' = Append(
                  [stack EXCEPT ![Len(stack)] =
                      [@ EXCEPT !.skip_other_steps_this_face = None,
                                !.tried = Step,
                                !.at = "wait"]],
                  Frame(Top.cost_to_here + 1, Append(Top.steps_to_here, Step),
                        Step, curr_ida_graph_nodes))
    /\ lookups' = lookups + Len(prune_tables)
    /\ UNCHANGED <<config, puzzle, explored, ida_nodes, ida_count, ret, driver>>

\* line 210: no candidate is left
SearchExhausted ==
    /\ AtLoop
    /\ Top.idx > Len(NextSteps)
    /\ Return(Top.f_cost, FALSE)
    /\ UNCHANGED <<config, puzzle, ida_graph_node, explored, ida_nodes,
                   ida_count, lookups, min_ida_threshold, threshold,
                   total_ida_count, best_solution, outcome>>

\* lines 202-203 left out: the loop goes on after a child found a solution
ChildFoundContinues ==
    /\ AtWait
    /\ ret.found_solution
    /\ stack' = [stack EXCEPT ![Len(stack)] =
                    [@ EXCEPT !.idx = @ + 1, !.at = "loop"]]
    /\ UNCHANGED <<config, puzzle, ida_graph_node, explored, ida_nodes,
                   ida_count, ret, lookups, driver>>

\* lines 202-203: the child found a solution
ChildFound ==
    /\ AtWait
    /\ ret.found_solution
    /\ Return(ret.f_cost, TRUE)
    /\ UNCHANGED <<config, puzzle, ida_graph_node, explored, ida_nodes,
                   ida_count, lookups, min_ida_threshold, threshold,
                   total_ida_count, best_solution, outcome>>

\* lines 204-208 with >= in place of > at line 205
ChildNotFoundAtThreshold ==
    /\ AtWait
    /\ ~ret.found_solution
    /\ stack' = [stack EXCEPT ![Len(stack)] =
                    [@ EXCEPT !.skip_other_steps_this_face =
                                  IF ret.f_cost >= threshold THEN Step ELSE None,
                              !.idx = @ + 1,
                              !.at = "loop"]]
    /\ UNCHANGED <<config, puzzle, ida_graph_node, explored, ida_nodes,
                   ida_count, ret, lookups, driver>>

\* lines 204-208: the child found none; the skip marker is set or cleared
ChildNotFound ==
    /\ AtWait
    /\ ~ret.found_solution
    /\ stack' = [stack EXCEPT ![Len(stack)] =
                    [@ EXCEPT !.skip_other_steps_this_face =
                                  IF ret.f_cost > threshold THEN Step ELSE None,
                              !.idx = @ + 1,
                              !.at = "loop"]]
    /\ UNCHANGED <<config, puzzle, ida_graph_node, explored, ida_nodes,
                   ida_count, ret, lookups, driver>>

(***************************************************************************)
(* solve(): the tail of one threshold iteration (lines 350-398)            *)
(***************************************************************************)
\* lines 353-359 with the post-recolor snapshot restored in place of the
\* pre-recolor one
IterSuccessFromOriginal ==
    /\ pc = "iter_end"
    /\ total_ida_count' = total_ida_count + ida_count
    /\ best_solution' = get_best_ida_solution(ida_nodes)
    /\ Truthy(best_solution')
    /\ LET replayed == Replay(original, best_solution')
       IN  /\ parent_state' = replayed.state
           /\ parent_solution' = replayed.solution
    /\ explored' = <<>>
    /\ ida_nodes' = <<>>
    /\ pc' = "done"
    /\ outcome' = "success"
    /\ UNCHANGED <<config, pre_recolor, original, ida_graph_node, ida_count,
                   stack, ret, lookups, min_ida_threshold, threshold>>

\* lines 350-384: a solution was recorded; the pre-recolor snapshot is
\* restored, the solution is replayed on the puzzle and solve() returns True
IterSuccess ==
    /\ pc = "iter_end"
    /\ total_ida_count' = total_ida_count + ida_count
    /\ best_solution' = get_best_ida_solution(ida_nodes)
    /\ Truthy(best_solution')
    /\ LET replayed == Replay(pre_recolor, best_solution')
       IN  /\ parent_state' = replayed.state
           /\ parent_solution' = replayed.solution
    /\ explored' = <<>>
    /\ ida_nodes' = <<>>
    /\ pc' = "done"
    /\ outcome' = "success"
    /\ UNCHANGED <<config, pre_recolor, original, ida_graph_node, ida_count,
                   stack, ret, lookups, min_ida_threshold, threshold>>

\* lines 350-373 when the clock has not advanced since start_time0: the
\* solution is replayed, then total_ida_count / delta.total_seconds()
\* raises ZeroDivisionError before explored and ida_nodes are cleared
IterSuccessZeroDivision ==
    /\ pc = "iter_end"
    /\ total_ida_count' = total_ida_count + ida_count
    /\ best_solution' = get_best_ida_solution(ida_nodes)
    /\ Truthy(best_solution')
    /\ LET replayed == Replay(pre_recolor, best_solution')
       IN  /\ parent_state' = replayed.state
           /\ parent_solution' = replayed.solution
    /\ pc' = "done"
    /\ outcome' = "ZeroDivisionError"
    /\ UNCHANGED <<config, pre_recolor, original, search, min_ida_threshold,
                   threshold>>

\* lines 385-398: no solution at this threshold; on to the next one
IterNext ==
    /\ pc = "iter_end"
    /\ total_ida_count' = total_ida_count + ida_count
    /\ best_solution' = get_best_ida_solution(ida_nodes)
    /\ ~Truthy(best_solution')
    /\ threshold' = threshold + 1
    /\ pc' = "loop"
    /\ UNCHANGED <<config, puzzle, search, min_ida_threshold, outcome>>

\* lines 385-388 when the clock has not advanced since start_time1:
\* self.ida_count / delta.total_seconds() raises ZeroDivisionError
IterNextZeroDivision ==
    /\ pc = "iter_end"
    /\ total_ida_count' = total_ida_count + ida_count
    /\ best_solution' = get_best_ida_solution(ida_nodes)
    /\ ~Truthy(best_solution')
    /\ pc' = "done"
    /\ outcome' = "ZeroDivisionError"
    /\ UNCHANGED <<config, puzzle, search, min_ida_threshold, threshold>>

\* lines 400-409: the range is exhausted; the puzzle is restored and
\* NoIDASolution is raised
NoSolution ==
    /\ pc = "loop"
    /\ threshold > call.max_ida_threshold
    /\ parent_state' = original.state
    /\ parent_solution' = original.solution
    /\ pc' = "done"
    /\ outcome' = "no_solution"
    /\ UNCHANGED <<config, pre_recolor, original, search, min_ida_threshold,
                   threshold, total_ida_count, best_solution>>

Next ==
    \/ Solve
    \/ IterStart
    \/ SearchCutoff
    \/ SearchGoal
    \/ SearchExplored
    \/ SearchExpand
    \/ SearchKeyError
    \/ SearchSkip
    \/ SearchDescend
    \/ SearchExhausted
    \/ ChildFound
    \/ ChildNotFound
    \/ IterSuccess
    \/ IterSuccessZeroDivision
    \/ IterNext
    \/ IterNextZeroDivision
    \/ NoSolution

Spec == Init /\ [][Next]_vars

(***************************************************************************)
(* __init__ (lines 23-84): the construction of the MoveSet                 *)
(***************************************************************************)
\* before __init__ has run: the arguments are chosen, nothing is built
ConstructInit ==
    /\ \E cand \in CandidateArgs, illegal \in IllegalArgs, legal \in LegalArgs :
          init_args = [moves_all |-> cand, moves_illegal |-> illegal,
                       legal_moves |-> legal]
    /\ moves_all = <<>>
    /\ prune_tables = <<>>
    /\ recolor_cfg = RecolorOff
    /\ call = [min_ida_threshold |-> NoThreshold, max_ida_threshold |-> 0,
               state |-> InitialState, solution |-> InitialSolution]
    /\ parent_state = InitialState
    /\ parent_solution = InitialSolution
    /\ pre_recolor = [state |-> <<>>, solution |-> <<>>]
    /\ original = [state |-> <<>>, solution |-> <<>>]
    /\ ida_graph_node = <<>>
    /\ min_ida_threshold = NoThreshold
    /\ threshold = 0
    /\ explored = <<>>
    /\ ida_nodes = <<>>
    /\ ida_count = 0
    /\ total_ida_count = 0
    /\ stack = <<>>
    /\ ret = [f_cost |-> 0, found_solution |-> FALSE]
    /\ best_solution = NoSteps
    /\ lookups = 0
    /\ pc = "new"
    /\ outcome = "none"

\* lines 48-50: an illegal move is not in moves_all; the exception leaves
\* __init__ and no instance exists
ConstructRaises ==
    /\ pc = "new"
    /\ ConfigError(init_args.moves_all, init_args.moves_illegal)
    /\ pc' = "done"
    /\ outcome' = "config_error"
    /\ UNCHANGED <<config, puzzle, search, min_ida_threshold, threshold,
                   total_ida_count, best_solution>>

\* lines 48-84: self.moves_all is built
Construct ==
    /\ pc = "new"
    /\ ~ConfigError(init_args.moves_all, init_args.moves_illegal)
    /\ moves_all' = MovesAll(init_args.moves_all, init_args.moves_illegal,
                             init_args.legal_moves)
    /\ pc' = "built"
    /\ UNCHANGED <<init_args, prune_tables, recolor_cfg, call, puzzle, search,
                   min_ida_threshold, threshold, total_ida_count,
                   best_solution, outcome>>

ConstructNext == ConstructRaises \/ Construct

ConstructSpec == ConstructInit /\ [][ConstructNext]_vars

(***************************************************************************)
(* What the properties are measured against                                *)
(***************************************************************************)
\* the aggregate node set by init_ida_graph_nodes() at the call of solve()
Root == [t \in DOMAIN prune_tables |-> prune_tables[t].state_index]

RootCost == CostToGoal(prune_tables, moves_all, Root)

\* minThreshold: the supplied value or, if none is supplied, the root cost
EffectiveMin ==
    IF call.min_ida_threshold = NoThreshold THEN RootCost
    ELSE call.min_ida_threshold

\* the aggregate node reached from `nodes` by the moves of `steps` in order
RECURSIVE Follow(_, _)
Follow(nodes, steps) ==
    IF steps = <<>> THEN nodes
    ELSE Follow(Advance(prune_tables, moves_all, nodes, Head(steps)), Tail(steps))

IsGoal(nodes) == CostToGoal(prune_tables, moves_all, nodes) = 0

\* no shortest path is longer than the number of aggregate nodes
LongestPath == Pow(NumNodes, Len(prune_tables))

\* where a length is expected and no goal node can be reached
NoPath == 0 - 1

\* breadth-first search: `near` holds the aggregate nodes reached from the
\* root by at most k moves
RECURSIVE ShortestFrom(_, _)
ShortestFrom(near, k) ==
    IF \E n \in near : IsGoal(n) THEN k
    ELSE IF k >= LongestPath THEN NoPath
    ELSE LET next == near \cup
                       {Advance(prune_tables, moves_all, n, moves_all[i]) :
                           n \in near, i \in DOMAIN moves_all}
         IN  IF next = near THEN NoPath ELSE ShortestFrom(next, k + 1)

\* the length of a shortest path from the root to a goal node
ShortestLength == ShortestFrom({Root}, 0)

Solvable == ShortestLength # NoPath

\* every table stores the exact distance to its goal node
CostsExact ==
    \A t \in DOMAIN prune_tables :
        prune_tables[t].cost = ExactCost(prune_tables[t].succ)

NoConsecutiveSameFace(steps) ==
    \A i \in 1 .. (Len(steps) - 1) :
        ~steps_on_same_face_and_layer(steps[i], steps[i + 1])

\* the state buffer after the moves of `steps` are rotated onto it in order
RECURSIVE StateAfter(_, _)
StateAfter(state, steps) ==
    IF steps = <<>> THEN state
    ELSE RotateState(StateAfter(state, SubSeq(steps, 1, Len(steps) - 1)),
                     steps[Len(steps)])

Returned == outcome = "success"

(***************************************************************************)
(* Properties                                                              *)
(***************************************************************************)
\* C1: whenever solve() returns success, the returned moves followed through
\* the successor lookups from the root aggregate node end at a node of
\* combined cost 0.
C1_ReturnedSolutionReachesGoal ==
    Returned => IsGoal(Follow(Root, best_solution))

\* C2: with exact costs, a reachable goal and the default minThreshold, the
\* length of the returned solution is the shortest path length from the root
\* to a goal node.
C2_ReturnedLengthIsShortest ==
    (Returned /\ call.min_ida_threshold = NoThreshold /\ CostsExact /\ Solvable)
        => Len(best_solution) = ShortestLength

\* C3: for a root of combined cost 0 (and a threshold range that reaches
\* threshold 1, where the root passes the cutoff), solve() returns success
\* with a zero-length solution, no move applied to the puzzle and no
\* successor lookup made.
C3_SolvedRootReturnsEmptySolution ==
    (pc = "done" /\ RootCost = 0
       /\ EffectiveMin <= 1 /\ call.max_ida_threshold >= 1
       /\ outcome # "ZeroDivisionError")
        => /\ Returned
           /\ best_solution = <<>>
           /\ parent_solution = call.solution
           /\ lookups = 0

\* C4: if a goal is reachable from the root by a shortest path of L >= 1
\* moves and minThreshold <= L <= maxThreshold, solve() returns success
\* instead of raising the no-solution error.
C4_SolutionWithinRangeIsFound ==
    (pc = "done" /\ Solvable
       /\ ShortestLength >= 1
       /\ EffectiveMin <= ShortestLength
       /\ ShortestLength <= call.max_ida_threshold)
        => outcome # "no_solution"

\* C5: when solve() raises the no-solution error, the puzzle's state buffer
\* and solution log equal what they were when solve() was called, also when
\* the recolor transform is active.
C5_NoSolutionRestoresPuzzle ==
    outcome = "no_solution"
        => /\ parent_state = call.state
           /\ parent_solution = call.solution

\* C6: no sequence returned by solve() and no sequence recorded in the
\* solution record holds two consecutive moves that are same-face-layer
\* related.
C6_NoConsecutiveSameFaceMoves ==
    /\ best_solution # NoSteps => NoConsecutiveSameFace(best_solution)
    /\ \A i \in DOMAIN ida_nodes : NoConsecutiveSameFace(ida_nodes[i].steps)

\* a solution of two moves or more is returned by an instance whose MoveSet
\* holds two moves of one face
C6_Witness ==
    /\ Returned
    /\ Len(best_solution) >= 2
    /\ {"A", "A2"} \subseteq Range(moves_all)

\* C7: ida_search never raises; in particular it raises no KeyError for the
\* previous move in the candidate-move table.
C7_SearchNeverRaises == outcome # "KeyError"

\* C8: solve() raises the range error exactly when minThreshold >
\* maxThreshold; ida_search has not been called when it raises; with
\* minThreshold <= maxThreshold at least one threshold iteration is run.
C8_RangeErrorExactlyWhenEmptyRange ==
    /\ outcome = "range_error"
          => /\ EffectiveMin > call.max_ida_threshold
             /\ total_ida_count + ida_count = 0
             /\ lookups = 0
             /\ stack = <<>>
    /\ (pc # "call" /\ EffectiveMin > call.max_ida_threshold)
          => outcome = "range_error"
    /\ (pc = "done" /\ EffectiveMin <= call.max_ida_threshold)
          => total_ida_count + ida_count >= 1

\* the range error is raised with the minimum defaulted from the root cost
C8_Witness ==
    /\ outcome = "range_error"
    /\ call.min_ida_threshold = NoThreshold
    /\ RootCost = call.max_ida_threshold + 1

\* C9: no run returns a solution shorter than the shortest path from the
\* root to a goal (so raising minThreshold towards the optimum cannot
\* shorten the solution below it).
C9_NeverShorterThanShortest ==
    (Returned /\ EffectiveMin <= ShortestLength)
        => Len(best_solution) >= ShortestLength

\* C10: when solve() returns success, the puzzle's state is the state at the
\* call with exactly the found moves rotated onto it in order, and the
\* solution log is the log at the call followed by exactly those moves.
C10_SuccessReplaysOnCallState ==
    Returned
        => /\ parent_state = StateAfter(call.state, best_solution)
           /\ parent_solution = call.solution \o best_solution

\* success with the recolor transform having changed the state buffer
C10_Witness ==
    /\ Returned
    /\ original.state # call.state
    /\ Len(best_solution) >= 2

\* the largest of 0 and the cost bytes stored at the tables' nodes
MaxCostByte(nodes) ==
    LET costs == {0} \cup {PtCostToGoal(prune_tables[t], moves_all, nodes[t]) :
                              t \in DOMAIN prune_tables}
    IN  CHOOSE c \in costs : \A d \in costs : d <= c

\* C11: for every assignment of current nodes to the tables, ida_heuristic
\* yields the tuple of those nodes in table order and the largest cost byte
\* stored at them, and the copy inlined in ida_search yields the same cost;
\* the heuristic leaves the tables' current nodes as they were: after the
\* call in solve() they are the root, the defaulted minThreshold is the
\* largest cost byte at the root, and every expanded frame's f_cost is its
\* cost so far plus the largest cost byte at its node.
C11_HeuristicIsNodesAndMaxCost ==
    /\ pc = "call"
          => \A nodes \in [DOMAIN prune_tables -> Nodes] :
                /\ ida_heuristic(prune_tables, moves_all, nodes)
                      = [lt_state |-> nodes, cost_to_goal |-> MaxCostByte(nodes)]
                /\ CostToGoal(prune_tables, moves_all, nodes)
                      = ida_heuristic(prune_tables, moves_all, nodes).cost_to_goal
    /\ (pc = "loop" /\ threshold = min_ida_threshold)
          => /\ ida_graph_node = Root
             /\ call.min_ida_threshold = NoThreshold
                   => min_ida_threshold = MaxCostByte(Root)
    /\ \A i \in DOMAIN stack :
          stack[i].at # "entry"
              => stack[i].f_cost = stack[i].cost_to_here
                                     + MaxCostByte(stack[i].prev_ida_graph_nodes)
    /\ \A i \in DOMAIN ida_nodes : MaxCostByte(ida_nodes[i].state) = 0

\* a frame was expanded at a node where two tables store different cost
\* bytes, both above 0, so that their sum is not their maximum
C11_Witness ==
    /\ pc = "search"
    /\ Len(prune_tables) = 2
    /\ Top.at = "loop"
    /\ LET c1 == PtCostToGoal(prune_tables[1], moves_all, Top.prev_ida_graph_nodes[1])
           c2 == PtCostToGoal(prune_tables[2], moves_all, Top.prev_ida_graph_nodes[2])
       IN  c1 > 0 /\ c2 > c1

\* the positions at which a list holds a symbol
PositionsOf(list, step) == {p \in DOMAIN list : list[p] = step}

\* C12: __init__ raises the configuration error exactly when some supplied
\* illegal move is not in the candidate superset; otherwise the MoveSet is
\* the explicit legal-move list as given when one is given, else the
\* candidate superset without the illegal moves in the superset's order,
\* and the index of each move is a zero-based position of the move in that
\* list (the position, when the move is listed once).
C12_MoveSetConstruction ==
    LET cand == init_args.moves_all
        illegal == init_args.moves_illegal
        legal == init_args.legal_moves
        foreign == \E i \in DOMAIN illegal : illegal[i] \notin Range(cand)
        kept(x) == x \notin Range(illegal)
    IN  /\ pc = "done" => (outcome = "config_error" /\ foreign)
        /\ pc = "built"
              => /\ ~foreign
                 /\ legal # <<>> => moves_all = legal
                 /\ legal = <<>> => moves_all = SelectSeq(cand, kept)
                 /\ \A p \in DOMAIN moves_all :
                       LET index == StepIndex(moves_all, moves_all[p])
                       IN  /\ index + 1 \in PositionsOf(moves_all, moves_all[p])
                           /\ PositionsOf(moves_all, moves_all[p]) = {p}
                                 => index = p - 1

\* the MoveSet was built from a superset with an illegal move in its middle
C12_Witness ==
    /\ pc = "built"
    /\ init_args.legal_moves = <<>>
    /\ init_args.moves_all = <<"A", "A2", "B">>
    /\ init_args.moves_illegal = <<"A2">>
    /\ moves_all = <<"A", "B">>

\* C13: in every threshold iteration the top-level ida_search call is made
\* with cost 0, no moves, no previous move, and with the root aggregate
\* node both as its argument and in the tables' current nodes, whatever
\* nodes earlier iterations visited.
C13_EveryIterationStartsAtRoot ==
    stack # <<>>
        => /\ stack[1].cost_to_here = 0
           /\ stack[1].steps_to_here = <<>>
           /\ stack[1].prev_step = None
           /\ stack[1].prev_ida_graph_nodes = Root
           /\ (Len(stack) = 1 /\ stack[1].at = "entry") => ida_graph_node = Root

\* C14: at the entry of every ida_search call the tables' current nodes are
\* the aggregate node passed as the call's argument, and the aggregate node
\* of every child call is, table by table, the successor under the child's
\* move of the node its parent frame was entered with.
C14_ScratchEqualsArgumentAtEntry ==
    /\ \A i \in DOMAIN stack :
          stack[i].at = "entry" => ida_graph_node = stack[i].prev_ida_graph_nodes
    /\ \A i \in DOMAIN stack :
          i >= 2 =>
              \A t \in DOMAIN prune_tables :
                  stack[i].prev_ida_graph_nodes[t]
                      = NextNode(prune_tables[t], moves_all,
                                 stack[i - 1].prev_ida_graph_nodes[t],
                                 stack[i].prev_step)

\* a child of the top-level frame is entered after an earlier sibling was
\* expanded and left the tables at another node
C14_Witness ==
    /\ pc = "search"
    /\ Len(stack) = 2
    /\ Top.at = "entry"
    /\ stack[1].idx >= 2
    /\ Cardinality(DOMAIN explored) >= 2

\* C15: an ida_search call whose cost so far plus cost to goal is at least
\* the threshold returns (f_cost, false), records no solution and expands
\* nothing, also at a node of cost 0; so every solution in the solution
\* record of the iteration with threshold T has at most T-1 moves.
C15_CutoffPrecedesGoalTest ==
    [][/\ (AtEntry /\ EntryFCost >= threshold)
            => /\ ret' = [f_cost |-> EntryFCost, found_solution |-> FALSE]
               /\ stack' = Pop
               /\ ida_nodes' = ida_nodes
               /\ explored' = explored
               /\ lookups' = lookups
       /\ \A i \in DOMAIN ida_nodes' :
              Len(ida_nodes'[i].steps) <= threshold' - 1]_vars

\* the top-level call at a root of cost 0 was cut off by threshold 0 and
\* returned no solution (below the top level a node of cost 0 is never cut
\* off: its parent, of cost 1 or more, would have been cut off before)
C15_Witness ==
    /\ pc = "iter_end"
    /\ threshold = 0
    /\ IsGoal(ida_graph_node)
    /\ ret = [f_cost |-> 0, found_solution |-> FALSE]
    /\ ida_nodes = <<>>
    /\ explored = <<>>

\* the frame's most recently tried candidate returned no solution and an
\* f_cost above the threshold, and is on the face and layer of `step`
SkipRule(frame, step) ==
    /\ frame.tried # None
    /\ ~ret.found_solution
    /\ ret.f_cost > threshold
    /\ steps_on_same_face_and_layer(frame.tried, step)

\* C16: within one frame a candidate move is left untried exactly when the
\* frame's most recently tried candidate returned no solution with an
\* f_cost strictly above the threshold and is same-face-layer related to
\* the candidate; otherwise (in particular after a child that returned an
\* f_cost of at most the threshold) ida_search is called for the candidate.
C16_SameFaceSkipRule ==
    [][(AtLoop /\ Top.idx <= Len(NextSteps))
          => /\ SkipRule(Top, Step)
                   => /\ Len(stack') = Len(stack)
                      /\ stack'[Len(stack)].idx = Top.idx + 1
                      /\ stack'[Len(stack)].at = "loop"
                      /\ ida_count' = ida_count
             /\ ~SkipRule(Top, Step)
                   => /\ Len(stack') = Len(stack) + 1
                      /\ stack'[Len(stack')].prev_step = Step
                      /\ stack'[Len(stack')].at = "entry"]_vars

\* a frame has left a candidate untried: the one before the current
\* candidate is on the face of the most recently tried one
C16_Witness ==
    /\ AtLoop
    /\ Top.idx >= 3
    /\ Top.tried = NextSteps[Top.idx - 2]
    /\ Top.skip_other_steps_this_face = Top.tried
    /\ steps_on_same_face_and_layer(Top.tried, NextSteps[Top.idx - 1])
    /\ ret.f_cost > threshold

\* the step enters a threshold iteration: the top-level ida_search call
StartsIteration == pc = "loop" /\ pc' = "search"

\* the step expands the innermost frame's node (lines 154-158)
Expands ==
    /\ AtEntry
    /\ Len(stack') = Len(stack)
    /\ pc' = "search"
    /\ stack'[Len(stack)].at = "loop"

\* C17: the memo and the solution record are empty when a threshold
\* iteration starts; within an iteration a node is expanded at a cost only
\* if the memo holds no entry for it of at most that cost, the expansion
\* writes that cost as the node's entry, nothing else changes the memo, and
\* no entry increases; so a node's entry is the smallest cost at which it
\* has been expanded in the iteration, and is at most the cost of every
\* expanded frame of that node on the call stack.
C17_ExploredMemo ==
    [][/\ StartsIteration => (explored' = <<>> /\ ida_nodes' = <<>>)
       /\ Expands
            => /\ LtState \in DOMAIN explored
                     => explored[LtState] > Top.cost_to_here
               /\ DOMAIN explored' = DOMAIN explored \cup {LtState}
               /\ explored'[LtState] = Top.cost_to_here
               /\ \A k \in DOMAIN explored \ {LtState} :
                     explored'[k] = explored[k]
       /\ (pc = "search" /\ pc' \in {"search", "iter_end"} /\ ~Expands)
            => explored' = explored
       /\ (pc = "search" /\ pc' \in {"search", "iter_end"})
            => \A k \in DOMAIN explored :
                  k \in DOMAIN explored' /\ explored'[k] <= explored[k]
       /\ \A i \in DOMAIN stack' :
              stack'[i].at # "entry"
                  => /\ stack'[i].prev_ida_graph_nodes \in DOMAIN explored'
                     /\ explored'[stack'[i].prev_ida_graph_nodes]
                            <= stack'[i].cost_to_here]_vars

\* in an iteration after the first, a node recorded in the memo is about
\* to be expanded again at a smaller cost
C17_Witness ==
    /\ AtEntry
    /\ threshold > min_ida_threshold
    /\ ~Cutoff(EntryFCost, threshold)
    /\ EntryCostToGoal # 0
    /\ LtState \in DOMAIN explored
    /\ explored[LtState] > Top.cost_to_here

\* C18: the call that reaches a goal records its own moves, which lead from
\* the iteration's starting node to the recorded goal node; once a solution
\* is recorded every step of the iteration is a frame returning found=true,
\* with no further call, lookup or memo entry; so the solution record never
\* holds more than one entry, and that entry is what get_best_ida_solution
\* picks at the end of the iteration.
C18_FirstSuccessWins ==
    [][/\ Len(ida_nodes') <= 1
       /\ (pc = "search" /\ ida_nodes = <<>> /\ ida_nodes' # <<>>)
            => /\ ida_nodes' = <<[state |-> LtState, steps |-> Top.steps_to_here]>>
               /\ IsGoal(LtState)
               /\ Follow(stack[1].prev_ida_graph_nodes, Top.steps_to_here) = LtState
               /\ ret'.found_solution
               /\ stack' = Pop
       /\ (pc = "search" /\ ida_nodes # <<>>)
            => /\ stack' = Pop
               /\ ret'.found_solution
               /\ ret'.f_cost = ret.f_cost
               /\ ida_nodes' = ida_nodes
               /\ ida_count' = ida_count
               /\ lookups' = lookups
               /\ explored' = explored
               /\ ida_graph_node' = ida_graph_node
       /\ (pc = "iter_end" /\ ida_nodes # <<>>)
            => best_solution' = ida_nodes[1].steps]_vars

\* a solution is recorded and a frame that still has candidates left is
\* about to return
C18_Witness ==
    /\ AtWait
    /\ ret.found_solution
    /\ Len(ida_nodes) = 1
    /\ Len(stack) >= 2
    /\ Top.idx < Len(NextSteps)

\* C19: solve() ends by returning success or by raising the no-solution or
\* the range error and in no other way (the division by an elapsed time of
\* zero at lines 373 and 388 left aside); the threshold changes only by +1,
\* after an iteration that recorded no solution, and an iteration that
\* recorded one ends solve(); within the iteration with threshold T every
\* ida_search call has a cost so far of at most T, and T is at most
\* maxThreshold.
C19_EndsWithDocumentedOutcome ==
    [][/\ (pc' = "done" /\ outcome' # "ZeroDivisionError")
            => outcome' \in {"success", "no_solution", "range_error"}
       /\ (pc # "call" /\ threshold' # threshold)
            => /\ threshold' = threshold + 1
               /\ pc = "iter_end"
               /\ ida_nodes = <<>>
       /\ (pc = "iter_end" /\ ida_nodes # <<>>) => pc' = "done"
       /\ \A i \in DOMAIN stack' :
              /\ stack'[i].cost_to_here <= threshold'
              /\ threshold' <= call.max_ida_threshold]_vars

====
